---- MODULE Spec2Model ----
(***************************************************************************)
(* Call-lifecycle controller and analyzers of the call fraud detector.     *)
(*                                                                         *)
(* Two programs are modelled:                                              *)
(*   - CallDetectionService (src/src/core/call_detector.py): the asyncio   *)
(*     service whose handlers on_call_started / on_call_ended /            *)
(*     stop_monitoring and whose _real_time_processing tasks interleave at *)
(*     their await points (specification Spec);                            *)
(*   - AudioProcessor + handle_websocket (src/python_server.py): the       *)
(*     per-connection websocket loop (specification ServerSpec).           *)
(* and the analyzers they call, each on inputs of its own:                 *)
(*   - AudioAnalyzer (specification AudioSpec);                            *)
(*   - LLMAnalyzer and the fusion with the audio risk (FusionSpec);        *)
(*   - ConversationAnalyzer (ConversationSpec).                            *)
(*                                                                         *)
(* Code between two awaits runs atomically on the event loop, so every     *)
(* action below is one such stretch of code.  An await of a coroutine that *)
(* never suspends (start_call_recording, stop_call_recording,              *)
(* _handle_real_time_result) does not yield and is part of the same step.  *)
(*                                                                         *)
(* Risk scores are fixed-point numbers with three decimals (0.8 is 800),   *)
(* those of ConversationAnalyzer are in units of 1/6000.                   *)
(***************************************************************************)
EXTENDS Integers, Sequences, FiniteSets, TLC

\* ---------------------------------------------------------------- bounds
\* Number of call sessions the environment starts.
MaxCalls == 2
\* Number of audio chunks the capture device delivers in a run.
MaxChunks == 2
\* Largest reading of the millisecond clock used for call ids.
MaxClock == 2
\* Number of chunks in which the transcription service hears speech.
MaxSpeech == 2
\* Number of times the capture device raises.
MaxFaults == 1
\* Samples per captured chunk (the capture device is a placeholder in the
\* source, its chunk size is the environment's choice).
SamplesPerChunk == 4800000

\* Number of websocket messages the client sends in a run.
MaxMessages == 3
\* Samples per block of a websocket message (messages are whole blocks).
SamplesPerBlock == 8000

\* Largest number of samples in an array given to extract_features.
MaxAudioLen == 2

\* Largest number of tokens in a transcript.
MaxTranscriptLen == 3
MaxLabelledLen == 4

\* ------------------------------------------------------ program constants
SAMPLE_RATE == 16000
RECORDING_DURATION == 300
MEDIUM_RISK_THRESHOLD == 600
HIGH_RISK_THRESHOLD == 800

\* current_call_id = None
NoCall == 0

\* Config.RECORDING_DURATION ("5 minutes max") in captured chunks.
BufferCap == (RECORDING_DURATION * SAMPLE_RATE) \div SamplesPerChunk

\* Risk scores analyze_conversation returns on the transcripts of a run.
ConversationRisks == {0, 900}
\* Risk score calculate_audio_risk_score returns on the audio of a run.
AudioRisks == {900}

\* calculate_audio_risk_score(_empty_features()): every .get defaults to 0,
\* so rms < 0.01, dynamic_range < 0.1, spectral_centroid < 500, hnr < 10
\* and speech_rate < 1 all trigger.
EmptyFeaturesRisk == 200 + 150 + 100 + 100 + 100

Sessions == 1..MaxCalls

VARIABLES
    is_monitoring,    \* CallDetectionService.is_monitoring
    is_recording,     \* CallDetectionService.is_recording
    current_call_id,  \* CallDetectionService.current_call_id (NoCall = None)
    audio_buffer,     \* CallDetectionService.audio_buffer
    now,              \* last reading of time.time() * 1000
    nStarted,         \* number of sessions started so far (index of the newest)
    call_ids,         \* id given to each started session
    nChunks,          \* chunks delivered by the capture device so far
    captured,         \* chunks appended since recording last started
    task_pc,          \* position of each _real_time_processing task
    nFaults,          \* times the capture device has raised so far
    fin,              \* position and locals of each on_call_ended coroutine
    save_calls,       \* records passed to call_repository.save_call_record
    results,          \* results handled by _handle_real_time_result since
                      \* recording last started, in order
    sink_failing,     \* the repository could not store the record it was last
                      \* given (its database fails or rejects the record)
    op                \* what ran last: "on_call_started" for that handler,
                      \* "tick_no_text" for a tick that got an empty
                      \* transcription, else "other"

VARIABLES
    ws_audio_buffer,  \* AudioProcessor.audio_buffer, a deque(maxlen=48000)
    is_processing,    \* AudioProcessor.is_processing
    ws_pc,            \* position of handle_websocket
    ws_incoming,      \* messages received by the socket, not yet iterated over
    nMessages,        \* messages the client has sent so far
    nBlocks,          \* sample blocks the client has sent so far
    ws_received,      \* every block add_audio_chunk was given, in order
    ws_sent           \* results sent back to the client, in order

VARIABLES
    au_pc,            \* position of the audio analysis of one pass
    audio_data_len,   \* len(audio_data) of the array given to extract_features
    astype_raises,    \* extract_features fails outside its four sub-analyses
    outcome,          \* of each sub-analysis: the dict it computes, or Raised
    features,         \* the dict extract_features returned
    audio_risk_score  \* the value calculate_audio_risk_score returned

VARIABLES
    fu_pc,                 \* position of the conversation analysis and fusion
    transcription,         \* the text given to analyze_conversation
    classifier,            \* what the sentiment classifier does on that text
    fu_audio_risk,         \* audio_risk of the same pass
    conversation_analysis, \* the dict analyze_conversation returned
    verdict                \* the fused risk and what was decided on it

VARIABLES
    cv_pc,             \* position of the analysis of one transcript
    cv_transcription,  \* the transcript given to the analyzers
    cv_analysis,       \* the dict analyze_two_sided_conversation returned
    cv_llm_analysis,   \* the dict analyze_conversation returned on it
    cv_previous_risk   \* risk_score of the transcript before a keyword was added

wsVars == <<ws_audio_buffer, is_processing, ws_pc, ws_incoming, nMessages,
            nBlocks, ws_received, ws_sent>>

auVars == <<au_pc, audio_data_len, astype_raises, outcome, features, audio_risk_score>>

\* The state of the analyzers when they are checked on their own.
fuVars == <<fu_pc, transcription, classifier, fu_audio_risk,
            conversation_analysis, verdict>>

cvVars == <<cv_pc, cv_transcription, cv_analysis, cv_llm_analysis,
            cv_previous_risk>>

pureVars == <<auVars, fuVars, cvVars>>

svcVars == <<is_monitoring, is_recording, current_call_id, audio_buffer, now,
             nStarted, call_ids, nChunks, captured, task_pc, nFaults, fin,
             save_calls, results, sink_failing, op>>

\* ------------------------------------------------------------------------
\* python_server.py: AudioProcessor and handle_websocket (one connection)
\* ------------------------------------------------------------------------

\* deque(maxlen=int(16000 * 3)), in blocks.
DequeMaxLen == (16000 * 3) \div SamplesPerBlock
\* process_buffer returns None below 16000 * 0.5 samples, in blocks.
MinProcessLen == (16000 \div 2) \div SamplesPerBlock
\* The thresholds of the two log lines of handle_websocket (0.7 and 0.5).
WS_HIGH_RISK == 700
WS_MEDIUM_RISK == 500

\* The last n elements of a sequence (all of it when it is shorter).
Tail_n(seq, n) ==
    IF Len(seq) <= n THEN seq ELSE SubSeq(seq, Len(seq) - n + 1, Len(seq))

\* deque.extend on a deque with maxlen: appends on the right, one element at
\* a time, dropping from the left whenever the length would exceed maxlen.
deque_extend(dq, items) ==
    Tail_n(dq \o items, DequeMaxLen)

\* AudioProcessor.__init__ and the state of a connection that was just opened.
WsInit ==
    /\ ws_audio_buffer = <<>>
    /\ is_processing = FALSE
    /\ ws_pc = "receiving"
    /\ ws_incoming = <<>>
    /\ nMessages = 0
    /\ nBlocks = 0
    /\ ws_received = <<>>
    /\ ws_sent = <<>>

\* The blocks nBlocks+1 .. nBlocks+k, each named by its arrival number.
NewBlocks(k) ==
    [i \in 1..k |-> nBlocks + i]

\* The client sends a message: binary audio of 0 to 3 blocks, or a text frame.
\* The websocket library queues it until the handler iterates to it.
ws_client_sends ==
    /\ UNCHANGED <<svcVars, pureVars>>
    /\ ws_pc # "closed"
    /\ nMessages < MaxMessages
    /\ nMessages' = nMessages + 1
    /\ \/ \E k \in {0, 1, 3} :
             /\ ws_incoming' = Append(ws_incoming, [bytes |-> TRUE, data |-> NewBlocks(k)])
             /\ nBlocks' = nBlocks + k
       \/ /\ ws_incoming' = Append(ws_incoming, [bytes |-> FALSE, data |-> <<>>])
          /\ UNCHANGED nBlocks
    /\ UNCHANGED <<ws_audio_buffer, is_processing, ws_pc, ws_received, ws_sent>>

\* AudioProcessor.add_audio_chunk.
add_audio_chunk(audio_data) ==
    /\ ws_audio_buffer' = deque_extend(ws_audio_buffer, audio_data)
    /\ ws_received' = ws_received \o audio_data

\* One iteration of "async for message in websocket" up to its first
\* suspension: a text frame is skipped; audio is appended and, as
\* is_processing is clear, process_buffer is awaited, which returns None at
\* once on a short buffer and else suspends in transcribe_audio.
handle_message ==
    /\ UNCHANGED <<svcVars, pureVars>>
    /\ ws_pc = "receiving"
    /\ ws_incoming # <<>>
    /\ ws_incoming' = Tail(ws_incoming)
    /\ IF ~Head(ws_incoming).bytes
       THEN UNCHANGED <<ws_audio_buffer, ws_received, is_processing, ws_pc>>
       ELSE /\ add_audio_chunk(Head(ws_incoming).data)
            /\ IF is_processing
               THEN UNCHANGED <<is_processing, ws_pc>>
               ELSE IF Len(ws_audio_buffer') < MinProcessLen
                    THEN /\ is_processing' = FALSE
                         /\ UNCHANGED ws_pc
                    ELSE /\ is_processing' = TRUE
                         /\ ws_pc' = "evaluating"
    /\ UNCHANGED <<nMessages, nBlocks, ws_sent>>

\* The level handle_websocket logs a result at.
log_level(risk_score) ==
    IF risk_score > WS_HIGH_RISK THEN "high"
    ELSE IF risk_score > WS_MEDIUM_RISK THEN "medium" ELSE "none"

\* Risk scores analyze_conversation returns to process_buffer in a run.
WsRisks == {0, 600, 900}

\* process_buffer returns to handle_websocket: None on an empty
\* transcription; else the analysis, which is sent to the client and logged,
\* unless the send raises ConnectionClosed.
process_buffer_ready ==
    /\ UNCHANGED <<svcVars, pureVars>>
    /\ ws_pc = "evaluating"
    /\ is_processing' = FALSE
    /\ \/ /\ ws_pc' = "receiving"
          /\ UNCHANGED ws_sent
       \/ /\ ws_pc' = "receiving"
          /\ \E risk \in WsRisks :
                ws_sent' = Append(ws_sent, [risk_score |-> risk, level |-> log_level(risk)])
       \/ /\ ws_pc' = "closed"
          /\ UNCHANGED ws_sent
    /\ UNCHANGED <<ws_audio_buffer, ws_incoming, nMessages, nBlocks, ws_received>>

\* The client disconnects while the handler waits for a message: the
\* iteration raises ConnectionClosed and the handler returns.
ws_disconnect ==
    /\ UNCHANGED <<svcVars, pureVars>>
    /\ ws_pc = "receiving"
    /\ ws_pc' = "closed"
    /\ UNCHANGED <<ws_audio_buffer, is_processing, ws_incoming, nMessages, nBlocks,
                   ws_received, ws_sent>>

ServerNext ==
    \/ ws_client_sends
    \/ handle_message
    \/ process_buffer_ready
    \/ ws_disconnect

\* ------------------------------------------------------------------------
\* AudioAnalyzer (src/src/audio/audio_analyzer.py)
\* ------------------------------------------------------------------------
\* Units: rms_energy, dynamic_range, jitter, shimmer and pause_ratio in
\* thousandths; spectral_centroid in Hz; hnr in dB; speech_rate in
\* syllables per second.

\* dict.get(key, default); the empty dict is the empty function <<>>.
get(d, key, default) ==
    IF key \in DOMAIN d THEN d[key] ELSE default

\* _empty_features().
empty_features ==
    [volume_stats |-> <<>>,
     frequency_stats |-> <<>>,
     voice_quality |-> <<>>,
     temporal_features |-> <<>>,
     duration |-> 0]

\* Values the feature extractors yield on the audio of a run: for every test
\* of calculate_audio_risk_score a value on each side of it and the value it
\* compares with.
RmsVals == {0, 10, 800, 900}
DynamicRangeVals == {50, 100, 900, 950}
SpectralCentroidVals == {499, 500, 4000, 4001}
JitterVals == {20, 21}
ShimmerVals == {100, 101}
HnrVals == {9, 10}
SpeechRateVals == {0, 1, 8, 9}
PauseRatioVals == {400, 401}

\* The four sub-analyses, by the key of their result.
Extractors == {"volume_stats", "frequency_stats", "voice_quality", "temporal_features"}

\* An error inside a sub-analysis, in place of the dict it would compute.
Raised == [error |-> "raised"]

\* What the four sub-analyses do on a non-empty array: each computes its
\* dict or meets an error of its own.
ExtractorOutcomes ==
    [volume_stats :
         [rms_energy : RmsVals, dynamic_range : DynamicRangeVals] \cup {Raised},
     frequency_stats :
         [spectral_centroid : SpectralCentroidVals] \cup {Raised},
     voice_quality :
         [jitter : JitterVals, shimmer : ShimmerVals, hnr : HnrVals] \cup {Raised},
     temporal_features :
         [speech_rate : SpeechRateVals, pause_ratio : PauseRatioVals] \cup {Raised}]

\* No sub-analysis has run.
NoOutcome == [k \in Extractors |-> Raised]

\* extract_features with sub-analyses that do not catch their errors: the
\* error of one reaches the except clause of extract_features.
extract_features_unguarded(len, raised, computed) ==
    IF len = 0 \/ raised \/ (\E k \in Extractors : computed[k] = Raised)
    THEN empty_features
    ELSE [volume_stats |-> computed.volume_stats,
          frequency_stats |-> computed.frequency_stats,
          voice_quality |-> computed.voice_quality,
          temporal_features |-> computed.temporal_features,
          duration |-> len]

\* _extract_volume_features, _extract_frequency_features,
\* _extract_voice_quality_features and _extract_temporal_features: the body
\* of each is one try block, whose except clause returns {}.
extract_sub_features(computed) ==
    IF computed = Raised THEN <<>> ELSE computed

\* extract_features: _empty_features() for an empty array and when it fails
\* outside the sub-analyses, else the four sub-results and the duration, in
\* samples.
extract_features(len, raised, computed) ==
    IF len = 0 \/ raised THEN empty_features
    ELSE [volume_stats |-> extract_sub_features(computed.volume_stats),
          frequency_stats |-> extract_sub_features(computed.frequency_stats),
          voice_quality |-> extract_sub_features(computed.voice_quality),
          temporal_features |-> extract_sub_features(computed.temporal_features),
          duration |-> len]

\* The list risk_factors of calculate_audio_risk_score, appended to in the
\* order of the tests; every missing value reads as 0.
risk_factors(f) ==
    LET volume_stats == get(f, "volume_stats", <<>>)
        freq_stats == get(f, "frequency_stats", <<>>)
        voice_quality == get(f, "voice_quality", <<>>)
        temporal == get(f, "temporal_features", <<>>)
        rms == get(volume_stats, "rms_energy", 0)
        dynamic_range == get(volume_stats, "dynamic_range", 0)
        spectral_centroid == get(freq_stats, "spectral_centroid", 0)
        jitter == get(voice_quality, "jitter", 0)
        shimmer == get(voice_quality, "shimmer", 0)
        hnr == get(voice_quality, "hnr", 0)
        speech_rate == get(temporal, "speech_rate", 0)
        pause_ratio == get(temporal, "pause_ratio", 0)
    IN  (IF rms < 10 \/ rms > 800 THEN <<200>> ELSE <<>>)
        \o (IF dynamic_range < 100 \/ dynamic_range > 900 THEN <<150>> ELSE <<>>)
        \o (IF spectral_centroid < 500 \/ spectral_centroid > 4000 THEN <<100>> ELSE <<>>)
        \o (IF jitter > 20 THEN <<150>> ELSE <<>>)
        \o (IF shimmer > 100 THEN <<150>> ELSE <<>>)
        \o (IF hnr < 10 THEN <<100>> ELSE <<>>)
        \o (IF speech_rate > 8 \/ speech_rate < 1 THEN <<100>> ELSE <<>>)
        \o (IF pause_ratio > 400 THEN <<100>> ELSE <<>>)

\* sum() of a list of numbers.
RECURSIVE sum(_)
sum(seq) ==
    IF seq = <<>> THEN 0 ELSE Head(seq) + sum(Tail(seq))

\* min() of two numbers.
min(a, b) ==
    IF a <= b THEN a ELSE b

\* calculate_audio_risk_score without its cap.
calculate_audio_risk_score_uncapped(f) ==
    sum(risk_factors(f))

\* calculate_audio_risk_score: 0.0 without a factor, else the capped sum.
calculate_audio_risk_score(f) ==
    IF risk_factors(f) = <<>> THEN 0 ELSE min(sum(risk_factors(f)), 1000)

\* No audio analysis is under way.
AudioIdle ==
    /\ au_pc = "idle"
    /\ audio_data_len = 0
    /\ astype_raises = FALSE
    /\ outcome = NoOutcome
    /\ features = empty_features
    /\ audio_risk_score = 0

\* ------------------------------------------------------------------------
\* Transcripts
\* ------------------------------------------------------------------------
\* A transcript is a sequence of tokens: words, "." for a run of sentence
\* marks and " " for a run of white space.  Two adjacent words are one space apart, so a
\* phrase of several words occurs in a text exactly where its words are
\* adjacent tokens.

Words == {"refund", "urgent", "URGENT", "final", "notice", "bitcoin",
          "cryptocurrency", "wait"}
Tokens == Words \cup {".", " "}

\* Every transcript of at most MaxTranscriptLen tokens.
Transcripts ==
    UNION {[1..n -> Tokens] : n \in 0..MaxTranscriptLen}

\* The transcript "Your account has been suspended. Press 1 to verify your
\* account immediately."
Scenario ==
    <<"Your", "account", "has", "been", "suspended", ".", " ",
      "Press", "1", "to", "verify", "your", "account", "immediately", ".">>

\* The scenario transcript and every part of it.
ScenarioTranscripts ==
    {SubSeq(Scenario, i, j) : i \in 1..(Len(Scenario) + 1), j \in 0..Len(Scenario)}

\* A call of five sentences in which every word list of the analyzers has
\* all its entries of the vocabulary, and every part of it.
LongCall ==
    <<"account", "suspended", ".", "wait", ".", "urgent", "final", "notice", ".",
      "wait", ".", "verify", "immediately", "press", "1", "bitcoin",
      "cryptocurrency", "refund">>

LongCallTranscripts ==
    {SubSeq(LongCall, i, j) : i \in 1..(Len(LongCall) + 1), j \in 0..Len(LongCall)}

\* The speaker labels of the transcripts, and every transcript of at most
\* MaxLabelledLen tokens that has a label in it.
Labels == {"caller:", "victim:"}

LabelledTranscripts ==
    {t \in UNION {[1..n -> Labels \cup {"urgent", "wait"}] : n \in 1..MaxLabelledLen} :
        \E i \in DOMAIN t : t[i] \in Labels}

\* str.lower(), on a token and on a text.
lower_token(tok) ==
    CASE tok = "URGENT" -> "urgent"
      [] tok = "Your" -> "your"
      [] tok = "Press" -> "press"
      [] tok = "NEGATIVE" -> "negative"
      [] tok = "NEUTRAL" -> "neutral"
      [] tok = "POSITIVE" -> "positive"
      [] OTHER -> tok

lower(text) ==
    [i \in DOMAIN text |-> lower_token(text[i])]

\* str.strip(): white space is removed at both ends.
RECURSIVE lstrip(_)
lstrip(text) ==
    IF text # <<>> /\ Head(text) = " " THEN lstrip(Tail(text)) ELSE text

RECURSIVE rstrip(_)
rstrip(text) ==
    IF text # <<>> /\ text[Len(text)] = " "
    THEN rstrip(SubSeq(text, 1, Len(text) - 1))
    ELSE text

strip(text) ==
    rstrip(lstrip(text))

\* A word begins with a word pattern: of the words of the transcripts and of
\* the lists below, only "immediately" has another one, "immediate", inside
\* it.
begins_with(tok, part) ==
    tok = part \/ (tok = "immediately" /\ part = "immediate")

\* "pattern in text" on strings: the words of the pattern are adjacent in the
\* text, and the text may go on within the word where the pattern ends.
contains(text, pattern) ==
    \E i \in 1..(Len(text) - Len(pattern) + 1) :
        /\ \A k \in 1..(Len(pattern) - 1) : text[i + k - 1] = pattern[k]
        /\ begins_with(text[i + Len(pattern) - 1], pattern[Len(pattern)])

\* The entries of a config list, in order, that occur in a lowered text.
matches(list, text_lower) ==
    SelectSeq(list, LAMBDA entry : contains(text_lower, lower(entry)))

\* ------------------------------------------------------------------------
\* LLMAnalyzer (src/src/ml/llm_analyzer.py)
\* ------------------------------------------------------------------------

\* The entries of Config.FRAUD_KEYWORDS, SUSPICIOUS_PHRASES and
\* EMOTIONAL_TRIGGERS that occur in some text made of the words above and of
\* the words of the scenario, in the order of the lists.
FRAUD_KEYWORDS ==
    << <<"urgent">>, <<"verify">>, <<"suspended">>, <<"press", "1">>,
       <<"refund">>, <<"final", "notice">> >>
SUSPICIOUS_PHRASES == << <<"bitcoin">>, <<"cryptocurrency">> >>
EMOTIONAL_TRIGGERS == << <<"urgent">>, <<"immediately">>, <<"final">> >>

KEYWORD_WEIGHT == 300
PHRASE_WEIGHT == 400
EMOTIONAL_WEIGHT == 200

\* What the sentiment classifier does on the text of a run: it was not
\* loaded, it raises, or it returns a label and a score in [0, 1].
ClassifierOutcomes ==
    {[loaded |-> FALSE, raises |-> FALSE, label |-> "", score |-> 0],
     [loaded |-> TRUE, raises |-> TRUE, label |-> "", score |-> 0]}
    \cup {[loaded |-> TRUE, raises |-> FALSE, label |-> l, score |-> c] :
            l \in {"negative", "NEGATIVE", "neutral", "positive"},
            c \in {700, 800, 1000}}

\* _rule_based_analysis (the three pattern lists play no part in the score).
rule_based_analysis(text) ==
    LET transcription_lower == lower(text)
        keyword_matches == matches(FRAUD_KEYWORDS, transcription_lower)
        phrase_matches == matches(SUSPICIOUS_PHRASES, transcription_lower)
        emotional_triggers == matches(EMOTIONAL_TRIGGERS, transcription_lower)
        keyword_score == Len(keyword_matches) * KEYWORD_WEIGHT
        phrase_score == Len(phrase_matches) * PHRASE_WEIGHT
        emotional_score == Len(emotional_triggers) * EMOTIONAL_WEIGHT
    IN  [keyword_matches |-> keyword_matches,
         phrase_matches |-> phrase_matches,
         emotional_triggers |-> emotional_triggers,
         rule_risk_score |-> min(keyword_score + phrase_score + emotional_score, 1000),
         keyword_count |-> Len(keyword_matches),
         phrase_count |-> Len(phrase_matches),
         trigger_count |-> Len(emotional_triggers)]

\* The dict _ml_based_analysis returns without a usable classifier result.
no_ml_analysis ==
    [ml_risk_score |-> 0, sentiment |-> "neutral", confidence |-> 0]

\* _analyze_sentiment: the classifier's result, {'NEUTRAL', 0.0} if it raised.
analyze_sentiment(clf) ==
    IF clf.raises
    THEN [label |-> "NEUTRAL", score |-> 0]
    ELSE [label |-> clf.label, score |-> clf.score]

\* _ml_based_analysis: a confident negative sentiment scores 0.6 of its
\* confidence, a very confident positive one 0.3 of it, anything else 0.
ml_based_analysis(clf) ==
    IF ~clf.loaded THEN no_ml_analysis
    ELSE LET result == analyze_sentiment(clf)
             sentiment == lower_token(result.label)
             confidence == result.score
             ml_risk == IF sentiment = "negative" /\ confidence > 700
                            THEN (confidence * 600) \div 1000
                        ELSE IF sentiment = "positive" /\ confidence > 800
                            THEN (confidence * 300) \div 1000
                        ELSE 0
         IN  [ml_risk_score |-> ml_risk, sentiment |-> sentiment,
              confidence |-> confidence]

\* The weighted combination of _combine_analyses.
weighted_risk(rule_risk, ml_risk) ==
    (rule_risk * 700 + ml_risk * 300) \div 1000

\* A verdict that also trusts a negative sentiment on its own.
is_suspicious_or_negative(combined, rule_analysis, ml_analysis) ==
    \/ combined > MEDIUM_RISK_THRESHOLD
    \/ rule_analysis.keyword_count >= 3
    \/ rule_analysis.phrase_count >= 2
    \/ ml_analysis.sentiment = "negative"

\* The verdict of _combine_analyses.
is_suspicious(combined, rule_analysis, ml_analysis) ==
    \/ combined > MEDIUM_RISK_THRESHOLD
    \/ rule_analysis.keyword_count >= 3
    \/ rule_analysis.phrase_count >= 2

\* _generate_reasoning, one entry per reason.
generate_reasoning(rule_analysis, ml_analysis) ==
    LET reasons ==
            (IF rule_analysis.keyword_count > 0 THEN <<"fraud keywords">> ELSE <<>>)
            \o (IF rule_analysis.phrase_count > 0 THEN <<"suspicious phrases">> ELSE <<>>)
            \o (IF rule_analysis.trigger_count > 0 THEN <<"emotional triggers">> ELSE <<>>)
            \o (IF ml_analysis.sentiment = "negative" THEN <<"Negative sentiment detected">> ELSE <<>>)
    IN  IF reasons = <<>> THEN <<"No significant fraud indicators detected">>
        ELSE reasons

\* _combine_analyses.
combine_analyses(rule_analysis, ml_analysis) ==
    LET rule_risk == rule_analysis.rule_risk_score
        ml_risk == ml_analysis.ml_risk_score
        combined == weighted_risk(rule_risk, ml_risk)
    IN  [risk_score |-> combined,
         is_suspicious |-> is_suspicious(combined, rule_analysis, ml_analysis),
         confidence |-> min(combined + 100, 1000),
         detected_keywords |-> rule_analysis.keyword_matches,
         detected_phrases |-> rule_analysis.phrase_matches,
         emotional_triggers |-> rule_analysis.emotional_triggers,
         sentiment |-> ml_analysis.sentiment,
         ml_confidence |-> ml_analysis.confidence,
         reasoning |-> generate_reasoning(rule_analysis, ml_analysis)]

\* _empty_analysis().
empty_analysis ==
    [risk_score |-> 0,
     is_suspicious |-> FALSE,
     confidence |-> 0,
     detected_keywords |-> <<>>,
     detected_phrases |-> <<>>,
     emotional_triggers |-> <<>>,
     sentiment |-> "neutral",
     ml_confidence |-> 0,
     reasoning |-> <<"No text to analyze">>]

\* analyze_conversation: the empty analysis for a blank transcription, else
\* the combination of the rule-based and the classifier's analysis (nothing
\* on that path raises: _ml_based_analysis catches the classifier's errors).
analyze_conversation(text, clf) ==
    IF strip(text) = <<>> THEN empty_analysis
    ELSE combine_analyses(rule_based_analysis(text),
                          ml_based_analysis(clf))

\* No conversation analysis is under way.
FusionIdle ==
    /\ fu_pc = "idle"
    /\ transcription = <<>>
    /\ classifier = [loaded |-> FALSE, raises |-> FALSE, label |-> "", score |-> 0]
    /\ fu_audio_risk = 0
    /\ conversation_analysis = empty_analysis
    /\ verdict = [risk |-> 0, alert |-> FALSE, is_fraud |-> FALSE]

\* ------------------------------------------------------------------------
\* ConversationAnalyzer (src/src/ml/conversation_analyzer.py)
\* ------------------------------------------------------------------------
\* Its scores are in units of 1/6000, so that the ratios of counts to turns
\* are whole numbers.

\* 1.0 in the units of the analyzer.
ONE == 6000

\* Config.RISK_THRESHOLD (0.6).
RISK_THRESHOLD == 3600

\* The entries of the analyzer's word lists that occur in some text made of
\* Words and of the words of the scenario, in the order of the lists.
caller_pressure_words == << <<"immediately">>, <<"urgent">>, <<"press", "1">> >>
victim_confusion_words == << <<"wait">> >>
fraud_tactics ==
    << <<"account", "suspended">>, <<"verify", "immediately">>,
       <<"final", "notice">> >>
urgency_words == << <<"urgent">>, <<"immediate">> >>

\* re.split(r'[.!?]+', transcription): the pieces between the runs of
\* sentence marks.
RECURSIVE split(_)
split(text) ==
    IF \A i \in DOMAIN text : text[i] # "." THEN <<text>>
    ELSE LET i == CHOOSE k \in DOMAIN text :
                      text[k] = "." /\ \A j \in 1..(k - 1) : text[j] # "."
             after == CHOOSE k \in (i + 1)..(Len(text) + 1) :
                          /\ \A j \in (i + 1)..(k - 1) : text[j] = "."
                          /\ k <= Len(text) => text[k] # "."
         IN  <<SubSeq(text, 1, i - 1)>> \o split(SubSeq(text, after, Len(text)))

\* The first place of a token in a text that has it.
first_of(text, tok) ==
    CHOOSE k \in DOMAIN text : text[k] = tok /\ \A j \in 1..(k - 1) : text[j] # tok

\* The branch of _split_conversation for a transcript without a speaker
\* label: every sentence that is not blank is a turn; the sentences of even
\* index (from 0, blank ones counted) are the caller's.
split_by_sentences(text) ==
    LET sentences == split(text)
        kept == SelectSeq([i \in 1..Len(sentences) |-> i],
                          LAMBDA i : strip(sentences[i]) # <<>>)
    IN  [k \in 1..Len(kept) |->
            [speaker |-> IF (kept[k] - 1) % 2 = 0 THEN "caller" ELSE "victim",
             text |-> strip(sentences[kept[k]]),
             turn_number |-> kept[k]]]

\* re.finditer of one speaker pattern: each match starts at the next label of
\* the speaker and runs, lazily, up to the next label of the other speaker
\* or to the end of the text; group(2).strip() is its text.
RECURSIVE finditer(_, _, _)
finditer(text, label, stop) ==
    IF \A i \in DOMAIN text : text[i] # label THEN <<>>
    ELSE LET rest == SubSeq(text, first_of(text, label) + 1, Len(text))
             j == IF \E k \in DOMAIN rest : rest[k] = stop
                  THEN first_of(rest, stop) ELSE Len(rest) + 1
         IN  <<strip(SubSeq(rest, 1, j - 1))>>
                 \o finditer(SubSeq(rest, j, Len(rest)), label, stop)

\* The branch of _split_conversation for a transcript with a speaker label:
\* the matches of the caller pattern that have a text, then those of the
\* victim pattern, numbered as they are appended (the final sort by
\* turn_number leaves them so).
split_by_labels(text) ==
    LET has_text(t) == t # <<>>
        caller_texts == SelectSeq(finditer(lower(text), "caller:", "victim:"), has_text)
        victim_texts == SelectSeq(finditer(lower(text), "victim:", "caller:"), has_text)
    IN  [k \in 1..(Len(caller_texts) + Len(victim_texts)) |->
            [speaker |-> IF k <= Len(caller_texts) THEN "caller" ELSE "victim",
             text |-> IF k <= Len(caller_texts) THEN caller_texts[k]
                      ELSE victim_texts[k - Len(caller_texts)],
             turn_number |-> k]]

\* _split_conversation.
split_conversation(text) ==
    IF \E i \in DOMAIN text : lower(text)[i] \in Labels
    THEN split_by_labels(text)
    ELSE split_by_sentences(text)

\* The turns of one speaker, in order.
turns_of(turns, speaker) ==
    SelectSeq(turns, LAMBDA t : t.speaker = speaker)

\* The number of entries of a word list that occur in a text.
count_in(list, text) ==
    Len(matches(list, lower(text)))

\* ' '.join of the texts of some turns.
RECURSIVE join(_)
join(turns) ==
    IF turns = <<>> THEN <<>> ELSE Head(turns).text \o join(Tail(turns))

\* A flow analysis that takes pressure that did not fall for an escalation:
\* the last turn is compared with >= instead of >.
analyze_conversation_flow_not_strict(turns) ==
    IF turns = <<>> THEN [flow_type |-> "unknown", pressure_escalation |-> FALSE]
    ELSE LET caller_turns == turns_of(turns, "caller")
             victim_turns == turns_of(turns, "victim")
             early_pressure == count_in(caller_pressure_words, caller_turns[1].text)
             late_pressure == count_in(caller_pressure_words,
                                       caller_turns[Len(caller_turns)].text)
         IN  [flow_type |->
                  IF 2 * Len(caller_turns) > 3 * Len(victim_turns)
                      THEN "caller_dominant"
                  ELSE IF count_in(fraud_tactics, join(caller_turns)) > 0
                      THEN "suspicious_pattern"
                  ELSE "normal",
              pressure_escalation |->
                  Len(caller_turns) > 1 /\ late_pressure >= early_pressure]

\* _analyze_conversation_flow.
analyze_conversation_flow(turns) ==
    IF turns = <<>> THEN [flow_type |-> "unknown", pressure_escalation |-> FALSE]
    ELSE LET caller_turns == turns_of(turns, "caller")
             victim_turns == turns_of(turns, "victim")
             early_pressure == count_in(caller_pressure_words, caller_turns[1].text)
             late_pressure == count_in(caller_pressure_words,
                                       caller_turns[Len(caller_turns)].text)
         IN  [flow_type |->
                  IF 2 * Len(caller_turns) > 3 * Len(victim_turns)
                      THEN "caller_dominant"
                  ELSE IF count_in(fraud_tactics, join(caller_turns)) > 0
                      THEN "suspicious_pattern"
                  ELSE "normal",
              pressure_escalation |->
                  Len(caller_turns) > 1 /\ late_pressure > early_pressure]

\* sum of count_in over the texts of some turns.
RECURSIVE total_in(_, _)
total_in(list, turns) ==
    IF turns = <<>> THEN 0
    ELSE count_in(list, Head(turns).text) + total_in(list, Tail(turns))

\* min(count / max(n, 1), 1.0).
level_score(count, n) ==
    LET d == IF n > 1 THEN n ELSE 1
    IN  IF count >= d THEN ONE ELSE (ONE * count) \div d

\* A mis-weighted sum of the contributions: the flow and the escalation are
\* weighted once more, by 0.30 and 0.10.
calculate_conversation_risk_score_reweighted(flow_analysis, speaker_analysis, fraud_indicators) ==
    LET base_score ==
            (IF flow_analysis.flow_type = "suspicious_pattern" THEN 540
             ELSE IF flow_analysis.flow_type = "caller_dominant" THEN 270 ELSE 0)
            + (IF flow_analysis.pressure_escalation THEN 60 ELSE 0)
            + speaker_analysis.caller_pressure \div 5
            + speaker_analysis.victim_confusion \div 5
            + Len(fraud_indicators.keywords) * 300
            + Len(fraud_indicators.phrases) * 480
            + fraud_indicators.tactics_count * 600
            + fraud_indicators.urgency_indicators * 120
    IN  IF base_score < ONE THEN base_score ELSE ONE

\* _analyze_speaker_behaviors.
analyze_speaker_behaviors(turns) ==
    LET caller_turns == turns_of(turns, "caller")
        victim_turns == turns_of(turns, "victim")
    IN  [caller_pressure |->
             level_score(total_in(caller_pressure_words, caller_turns), Len(caller_turns)),
         victim_confusion |->
             level_score(total_in(victim_confusion_words, victim_turns), Len(victim_turns))]

\* _detect_fraud_indicators.
detect_fraud_indicators(full_text) ==
    LET text_lower == lower(full_text)
    IN  [keywords |-> matches(FRAUD_KEYWORDS, text_lower),
         phrases |-> matches(SUSPICIOUS_PHRASES, text_lower),
         tactics_count |-> Len(matches(fraud_tactics, text_lower)),
         urgency_indicators |-> Len(matches(urgency_words, text_lower))]

\* _calculate_conversation_risk_score.
calculate_conversation_risk_score(flow_analysis, speaker_analysis, fraud_indicators) ==
    LET base_score ==
            (IF flow_analysis.flow_type = "suspicious_pattern" THEN 1800
             ELSE IF flow_analysis.flow_type = "caller_dominant" THEN 900 ELSE 0)
            + (IF flow_analysis.pressure_escalation THEN 600 ELSE 0)
            + speaker_analysis.caller_pressure \div 5
            + speaker_analysis.victim_confusion \div 5
            + Len(fraud_indicators.keywords) * 300
            + Len(fraud_indicators.phrases) * 480
            + fraud_indicators.tactics_count * 600
            + fraud_indicators.urgency_indicators * 120
    IN  min(base_score, ONE)

\* _calculate_confidence.
calculate_confidence(turns, fraud_indicators) ==
    min(3600
        + (IF Len(turns) > 4 THEN 1200 ELSE IF Len(turns) > 2 THEN 600 ELSE 0)
        + (IF fraud_indicators.keywords # <<>> \/ fraud_indicators.phrases # <<>>
           THEN 1200 ELSE 0),
        ONE)

\* _empty_result(reason); a reasoning is a list of sentences.
empty_result(reason) ==
    [risk_score |-> 0,
     is_suspicious |-> FALSE,
     confidence |-> 0,
     reasoning |-> reason,
     turns_count |-> 0,
     detected_keywords |-> <<>>,
     detected_phrases |-> <<>>]

\* _generate_conversation_reasoning: one entry per reason, without the
\* numbers and the samples that the code formats into them.
generate_conversation_reasoning(flow_analysis, speaker_analysis, fraud_indicators, risk_score) ==
    (IF flow_analysis.flow_type = "suspicious_pattern"
     THEN <<"Suspicious conversation pattern detected">> ELSE <<>>)
    \o (IF flow_analysis.pressure_escalation
        THEN <<"Caller pressure escalated during conversation">> ELSE <<>>)
    \o (IF 2 * speaker_analysis.caller_pressure > ONE
        THEN <<"High caller pressure level">> ELSE <<>>)
    \o (IF 10 * speaker_analysis.victim_confusion > 3 * ONE
        THEN <<"Victim confusion indicators">> ELSE <<>>)
    \o (IF fraud_indicators.keywords # <<>> THEN <<"Fraud keywords">> ELSE <<>>)
    \o (IF fraud_indicators.phrases # <<>> THEN <<"Suspicious phrases">> ELSE <<>>)
    \o (IF fraud_indicators.tactics_count > 0 THEN <<"fraud tactics detected">> ELSE <<>>)
    \o (IF risk_score > 4200 THEN <<"HIGH RISK">>
        ELSE IF risk_score > 2400 THEN <<"MEDIUM RISK">>
        ELSE <<"LOW RISK">>)

\* analyze_two_sided_conversation; the entries of 'conversation_analysis' are
\* fields of the result itself.
analyze_two_sided_conversation(text) ==
    IF strip(text) = <<>> THEN empty_result(<<"No transcription to analyze">>)
    ELSE LET conversation_turns == split_conversation(text)
             flow_analysis == analyze_conversation_flow(conversation_turns)
             speaker_analysis == analyze_speaker_behaviors(conversation_turns)
             fraud_indicators == detect_fraud_indicators(text)
             risk_score == calculate_conversation_risk_score(
                               flow_analysis, speaker_analysis, fraud_indicators)
         IN  [risk_score |-> risk_score,
              is_suspicious |-> risk_score >= RISK_THRESHOLD,
              confidence |-> calculate_confidence(conversation_turns, fraud_indicators),
              reasoning |-> generate_conversation_reasoning(
                                flow_analysis, speaker_analysis, fraud_indicators,
                                risk_score),
              turns_count |-> Len(conversation_turns),
              caller_pressure_level |-> speaker_analysis.caller_pressure,
              victim_confusion_level |-> speaker_analysis.victim_confusion,
              fraud_tactics_detected |-> fraud_indicators.tactics_count,
              conversation_flow |-> flow_analysis.flow_type,
              detected_keywords |-> fraud_indicators.keywords,
              detected_phrases |-> fraud_indicators.phrases]

\* No two-sided analysis is under way.
ConversationIdle ==
    /\ cv_pc = "idle"
    /\ cv_transcription = <<>>
    /\ cv_analysis = empty_result(<<>>)
    /\ cv_llm_analysis = empty_analysis
    /\ cv_previous_risk = 0

\* ------------------------------------------------------------------------
\* CallDetectionService
\* ------------------------------------------------------------------------

\* Positions of a _real_time_processing task: not created, created and not
\* yet run, in one of the two sleeps, suspended inside a tick, finished.
\* A tick suspends in transcribe_chunk and, on a non-empty transcription, in
\* analyze_conversation; the code between the two touches no shared state,
\* so the two suspensions are one position ("evaluating").
TaskPcs == {"none", "start", "sleep", "sleep_err", "evaluating", "done"}
\* Positions of an on_call_ended coroutine; its two suspensions
\* (transcribe_audio, analyze_conversation) are one position likewise.
FinPcs == {"none", "finalizing", "done"}

\* A finalisation that has not been started.
NoFin == [pc |-> "none", audio_data |-> <<>>]

\* __init__: nothing monitored, no call, empty buffer, no task.
ServiceInit ==
    /\ is_monitoring = FALSE
    /\ is_recording = FALSE
    /\ current_call_id = NoCall
    /\ audio_buffer = <<>>
    /\ now = 1
    /\ nStarted = 0
    /\ call_ids = [s \in Sessions |-> NoCall]
    /\ nChunks = 0
    /\ captured = <<>>
    /\ task_pc = [s \in Sessions |-> "none"]
    /\ nFaults = 0
    /\ fin = [s \in Sessions |-> NoFin]
    /\ save_calls = <<>>
    /\ results = <<>>
    /\ sink_failing = FALSE
    /\ op = "other"

\* The service and the server as constructed, no analysis under way.
Init ==
    /\ ServiceInit
    /\ WsInit
    /\ AudioIdle
    /\ FusionIdle
    /\ ConversationIdle

\* stop_call_recording: clears the flag and nothing else.
stop_call_recording ==
    is_recording' = FALSE

\* stop_monitoring: clears both flags; no final pass, the call id is kept.
stop_monitoring ==
    /\ UNCHANGED <<wsVars, pureVars>>
    /\ is_monitoring' = FALSE
    /\ IF is_recording THEN stop_call_recording ELSE UNCHANGED is_recording
    /\ op' = "other"
    /\ UNCHANGED <<current_call_id, audio_buffer, now, nStarted, call_ids,
                   nChunks, captured, task_pc, nFaults, fin, save_calls,
                   results, sink_failing>>

\* start_call_recording: sets the flag, resets the buffer and creates one more
\* _real_time_processing task (create_task schedules it, it has not run yet).
start_call_recording(s) ==
    /\ is_recording' = TRUE
    /\ audio_buffer' = <<>>
    /\ captured' = <<>>
    /\ results' = <<>>
    /\ task_pc' = [task_pc EXCEPT ![s] = "start"]

\* The branch of on_call_started past the is_recording test: a new id is read
\* off the clock (the clock never runs backwards) and recording starts.
new_call ==
    /\ nStarted < MaxCalls
    /\ \E t \in now..MaxClock :
          /\ now' = t
          /\ current_call_id' = t
          /\ call_ids' = [call_ids EXCEPT ![nStarted + 1] = t]
    /\ nStarted' = nStarted + 1
    /\ start_call_recording(nStarted + 1)
    /\ UNCHANGED <<is_monitoring, nChunks, nFaults, fin, save_calls, sink_failing>>

\* on_call_started without its is_recording test.
on_call_started_unguarded ==
    /\ UNCHANGED <<wsVars, pureVars>>
    /\ op' = "on_call_started"
    /\ new_call

\* on_call_started: returns at once while a call is being recorded.
on_call_started ==
    /\ UNCHANGED <<wsVars, pureVars>>
    /\ op' = "on_call_started"
    /\ IF is_recording
       THEN UNCHANGED <<is_monitoring, is_recording, current_call_id,
                        audio_buffer, now, nStarted, call_ids, nChunks,
                        captured, task_pc, nFaults, fin, save_calls, results,
                        sink_failing>>
       ELSE new_call

\* A fusion that adds the two risks without halving the sum.
combined_risk_sum(conversation_risk, audio_risk) ==
    conversation_risk + audio_risk

\* The fused risk of _handle_real_time_result and _process_final_results.
combined_risk(conversation_risk, audio_risk) ==
    (conversation_risk + audio_risk) \div 2

\* The verdict of _process_final_results.
is_fraud(final_risk) ==
    final_risk > MEDIUM_RISK_THRESHOLD

\* The dict built by _process_final_results; the id is read when the record
\* is built, the audio is the snapshot taken before the first await.
call_record(audio_data, final_transcription, conversation_risk, audio_risk) ==
    [id |-> current_call_id,
     audio |-> audio_data,
     duration |-> (Len(audio_data) * SamplesPerChunk) \div SAMPLE_RATE,
     transcription |-> final_transcription,
     risk_score |-> combined_risk(conversation_risk, audio_risk),
     is_fraud |-> is_fraud(combined_risk(conversation_risk, audio_risk)),
     conversation_risk |-> conversation_risk,
     audio_risk |-> audio_risk]

\* The row _save_call_record_sync makes of the dict it is given (the columns
\* that neither the id, the risk nor the verdict goes to are left out); a
\* missing 'call_id' reads as None.
save_call_record_sync(call_data) ==
    [call_id |-> get(call_data, "call_id", NoCall),
     duration |-> get(call_data, "duration", 0),
     transcription |-> get(call_data, "transcription", ""),
     combined_risk_score |-> get(call_data, "combined_risk_score", 0),
     is_suspicious |-> get(call_data, "is_suspicious", FALSE)]

\* The audio analysis of a pass: extract_features catches its own errors and
\* returns _empty_features(), whose score is EmptyFeaturesRisk.
AudioOutcomes == AudioRisks \cup {EmptyFeaturesRisk}

\* The conversation analysis of a pass: analyze_conversation catches its own
\* errors and returns _empty_analysis(), whose risk_score is 0.
EmptyAnalysisRisk == 0
ConversationOutcomes == ConversationRisks \cup {EmptyAnalysisRisk}

\* A tail of _process_final_results in which the error of a failing
\* repository leaves on_call_ended: current_call_id is not cleared.
finish_final_results_sink_raises(s, txt, conv, audio, failing) ==
    /\ save_calls' = Append(save_calls,
          call_record(fin[s].audio_data, txt, conv, audio))
    /\ sink_failing' = failing
    /\ fin' = [fin EXCEPT ![s] = [pc |-> IF failing THEN "raised" ELSE "done",
                                  audio_data |-> <<>>]]
    /\ current_call_id' = IF failing THEN current_call_id ELSE NoCall

\* The tail of _process_final_results and of on_call_ended: the record is
\* built and passed to save_call_record (the coroutine it returns is not
\* awaited, so whether the repository could store the record is not seen),
\* then on_call_ended clears current_call_id.
finish_final_results(s, txt, conv, audio, failing) ==
    /\ save_calls' = Append(save_calls,
          call_record(fin[s].audio_data, txt, conv, audio))
    /\ sink_failing' = failing
    /\ fin' = [fin EXCEPT ![s] = [pc |-> "done", audio_data |-> <<>>]]
    /\ current_call_id' = NoCall

\* on_call_ended up to its first suspension: nothing while not recording;
\* otherwise the flag is cleared and _process_final_results is entered, which
\* returns at once on an empty buffer or a missing id and else snapshots the
\* buffer and awaits the transcription.
on_call_ended ==
    /\ UNCHANGED <<wsVars, pureVars>>
    /\ op' = "other"
    /\ IF ~is_recording
       THEN UNCHANGED <<is_monitoring, is_recording, current_call_id,
                        audio_buffer, now, nStarted, call_ids, nChunks,
                        captured, task_pc, nFaults, fin, save_calls, results,
                        sink_failing>>
       ELSE /\ stop_call_recording
            /\ IF audio_buffer = <<>> \/ current_call_id = NoCall
               THEN /\ fin' = [fin EXCEPT ![nStarted].pc = "done"]
                    /\ current_call_id' = NoCall
               ELSE /\ fin' = [fin EXCEPT ![nStarted] =
                                  [pc |-> "finalizing", audio_data |-> audio_buffer]]
                    /\ UNCHANGED current_call_id
            /\ UNCHANGED <<is_monitoring, audio_buffer, now, nStarted, call_ids,
                           nChunks, captured, task_pc, nFaults, save_calls,
                           results, sink_failing>>

\* The awaits of _process_final_results return.  transcribe_audio gives ""
\* when Whisper failed (it catches its own errors) or heard nothing, and then
\* analyze_conversation returns _empty_analysis() without suspending;
\* otherwise analyze_conversation is awaited as well.
final_results_ready(s) ==
    /\ UNCHANGED <<wsVars, pureVars>>
    /\ fin[s].pc = "finalizing"
    /\ op' = "other"
    /\ \/ \E audio \in AudioOutcomes, failing \in BOOLEAN :
             finish_final_results(s, "", EmptyAnalysisRisk, audio, failing)
       \/ \E conv \in ConversationOutcomes, audio \in AudioOutcomes,
             failing \in BOOLEAN :
             finish_final_results(s, "text", conv, audio, failing)
    /\ UNCHANGED <<is_monitoring, is_recording, audio_buffer, now, nStarted,
                   call_ids, nChunks, captured, task_pc, nFaults, results>>

\* The alert test of _handle_real_time_result.
high_risk(risk) ==
    risk > HIGH_RISK_THRESHOLD

\* _handle_real_time_result: fuses the two risks and warns on a high risk.
handle_real_time_result(conv, audio) ==
    results' = Append(results,
        [risk |-> combined_risk(conv, audio),
         alert |-> high_risk(combined_risk(conv, audio))])

\* An except branch that leaves the loop instead of sleeping.
tick_except_ends_task(t) ==
    /\ task_pc' = [task_pc EXCEPT ![t] = "done"]
    /\ nFaults' = nFaults + 1

\* The except branch of _real_time_processing: log, sleep a second, loop.
tick_except(t) ==
    /\ task_pc' = [task_pc EXCEPT ![t] = "sleep_err"]
    /\ nFaults' = nFaults + 1

\* A tick that runs the audio analysis and handles a result although the
\* transcription it got is empty.
tick_no_text_analyzed(t) ==
    /\ task_pc' = [task_pc EXCEPT ![t] = "sleep"]
    /\ op' = "tick_no_text"
    /\ \E audio \in AudioOutcomes :
          handle_real_time_result(EmptyAnalysisRisk, audio)
    /\ UNCHANGED nFaults

\* The rest of a tick whose transcription is empty (transcribe_chunk returns
\* "" when Whisper is not initialized, on a chunk under half a second, on an
\* error of its own and on silence): "if transcription.strip()" skips both
\* analyses and the result handling, and the task sleeps DETECTION_INTERVAL.
tick_no_text(t) ==
    /\ task_pc' = [task_pc EXCEPT ![t] = "sleep"]
    /\ op' = "tick_no_text"
    /\ UNCHANGED <<results, nFaults>>

\* _get_audio_chunk returned a chunk: it is appended to the buffer.
capture_chunk ==
    /\ nChunks < MaxChunks
    /\ nChunks' = nChunks + 1
    /\ audio_buffer' = Append(audio_buffer, [n |-> nChunks + 1, call |-> nStarted])
    /\ captured' = Append(captured, [n |-> nChunks + 1, call |-> nStarted])

\* One pass of the while loop of _real_time_processing, from the loop test to
\* the first suspension.  The task ends when the flag is clear.  Otherwise
\* _get_audio_chunk yields None (as the placeholder does), a chunk, or it
\* raises; a chunk is appended to the buffer and transcribe_chunk is called,
\* which returns "" at once when Whisper is not initialized or the chunk is
\* short, and else suspends in the executor.
real_time_processing(t) ==
    /\ UNCHANGED <<wsVars, pureVars>>
    /\ task_pc[t] \in {"start", "sleep", "sleep_err"}
    /\ IF ~is_recording
       THEN /\ task_pc' = [task_pc EXCEPT ![t] = "done"]
            /\ op' = "other"
            /\ UNCHANGED <<audio_buffer, captured, nChunks, nFaults, results>>
       ELSE \/ /\ task_pc' = [task_pc EXCEPT ![t] = "sleep"]
               /\ op' = "other"
               /\ UNCHANGED <<audio_buffer, captured, nChunks, nFaults, results>>
            \/ /\ capture_chunk
               /\ task_pc' = [task_pc EXCEPT ![t] = "evaluating"]
               /\ op' = "other"
               /\ UNCHANGED <<nFaults, results>>
            \/ /\ capture_chunk
               /\ tick_no_text(t)
            \/ /\ nFaults < MaxFaults
               /\ tick_except(t)
               /\ op' = "other"
               /\ UNCHANGED <<audio_buffer, captured, nChunks, results>>
    /\ UNCHANGED <<is_monitoring, is_recording, current_call_id, now, nStarted,
                   call_ids, fin, save_calls, sink_failing>>

\* The awaits of a tick return.  transcribe_chunk gives "" when Whisper failed
\* or heard nothing: no analysis, no result.  Otherwise analyze_conversation
\* is awaited, the audio features of the chunk are scored and the result is
\* handled.  Either way the task then sleeps DETECTION_INTERVAL.
tick_ready(t) ==
    /\ UNCHANGED <<wsVars, pureVars>>
    /\ task_pc[t] = "evaluating"
    /\ \/ tick_no_text(t)
       \/ /\ Len(results) < MaxSpeech
          /\ \E conv \in ConversationOutcomes, audio \in AudioOutcomes :
                handle_real_time_result(conv, audio)
          /\ task_pc' = [task_pc EXCEPT ![t] = "sleep"]
          /\ op' = "other"
          /\ UNCHANGED nFaults
    /\ UNCHANGED <<is_monitoring, is_recording, current_call_id, audio_buffer,
                   now, nStarted, call_ids, nChunks, captured, fin,
                   save_calls, sink_failing>>

Next ==
    \/ stop_monitoring
    \/ on_call_started
    \/ on_call_ended
    \/ \E s \in Sessions : final_results_ready(s)
    \/ \E t \in Sessions : real_time_processing(t)
    \/ \E t \in Sessions : tick_ready(t)

vars == <<svcVars, wsVars, pureVars>>

\* The service on its own: no websocket connection is open.
Spec == Init /\ [][Next]_vars

\* The websocket server on its own: the service handles no call.
ServerSpec == Init /\ [][ServerNext]_vars

\* The service with the event loop's guarantees: a scheduled task or an
\* expired sleep is run, and an awaited executor job returns.
FairSpec ==
    /\ Spec
    /\ \A t \in Sessions : WF_vars(real_time_processing(t))
    /\ \A t \in Sessions : WF_vars(tick_ready(t))
    /\ \A s \in Sessions : WF_vars(final_results_ready(s))

\* ------------------------------------------------------------------------
\* The audio analysis of one pass (call_detector.py lines 146-147, 183-184)
\* ------------------------------------------------------------------------

\* An array of 0..MaxAudioLen samples is about to be analysed.
AudioInit ==
    /\ ServiceInit
    /\ WsInit
    /\ FusionIdle
    /\ ConversationIdle
    /\ au_pc = "input"
    /\ audio_data_len \in 0..MaxAudioLen
    /\ astype_raises \in BOOLEAN
    /\ outcome \in ExtractorOutcomes
    /\ features = empty_features
    /\ audio_risk_score = 0

\* audio_features = extract_features(audio_data, SAMPLE_RATE).
extract_features_step ==
    /\ UNCHANGED <<svcVars, wsVars, fuVars, cvVars>>
    /\ au_pc = "input"
    /\ features' = extract_features(audio_data_len, astype_raises, outcome)
    /\ au_pc' = "extracted"
    /\ UNCHANGED <<audio_data_len, astype_raises, outcome, audio_risk_score>>

\* audio_risk = calculate_audio_risk_score(audio_features).
calculate_audio_risk_score_step ==
    /\ UNCHANGED <<svcVars, wsVars, fuVars, cvVars>>
    /\ au_pc = "extracted"
    /\ audio_risk_score' = calculate_audio_risk_score(features)
    /\ au_pc' = "scored"
    /\ UNCHANGED <<audio_data_len, astype_raises, outcome, features>>

AudioNext ==
    \/ extract_features_step
    \/ calculate_audio_risk_score_step

\* The audio analyzer on its own.
AudioSpec == AudioInit /\ [][AudioNext]_vars

\* ------------------------------------------------------------------------
\* The conversation analysis of one pass and the fusion with its audio risk
\* (call_detector.py lines 141-148 and 156-165, 179-188)
\* ------------------------------------------------------------------------

\* The audio risks of a run (sums of weights of calculate_audio_risk_score).
AudioRiskVals == {0, 500, 650, 1000}

\* A text was transcribed and its audio scored.
FusionInit ==
    /\ ServiceInit
    /\ WsInit
    /\ AudioIdle
    /\ ConversationIdle
    /\ fu_pc = "input"
    /\ transcription \in Transcripts
    /\ classifier \in ClassifierOutcomes
    /\ fu_audio_risk \in AudioRiskVals
    /\ conversation_analysis = empty_analysis
    /\ verdict = [risk |-> 0, alert |-> FALSE, is_fraud |-> FALSE]

\* conversation_analysis = await analyze_conversation(text).
analyze_conversation_step ==
    /\ UNCHANGED <<svcVars, wsVars, auVars, cvVars>>
    /\ fu_pc = "input"
    /\ conversation_analysis' = analyze_conversation(transcription, classifier)
    /\ fu_pc' = "analyzed"
    /\ UNCHANGED <<transcription, classifier, fu_audio_risk, verdict>>

\* _handle_real_time_result on the analysis of a tick; a tick analyses only
\* a transcription that is not blank.
handle_real_time_result_step ==
    /\ UNCHANGED <<svcVars, wsVars, auVars, cvVars>>
    /\ fu_pc = "analyzed"
    /\ strip(transcription) # <<>>
    /\ verdict' = [risk |-> combined_risk(conversation_analysis.risk_score, fu_audio_risk),
                   alert |-> high_risk(combined_risk(conversation_analysis.risk_score,
                                                     fu_audio_risk)),
                   is_fraud |-> FALSE]
    /\ fu_pc' = "handled"
    /\ UNCHANGED <<transcription, classifier, fu_audio_risk, conversation_analysis>>

\* final_risk and is_fraud of _process_final_results.
process_final_results_step ==
    /\ UNCHANGED <<svcVars, wsVars, auVars, cvVars>>
    /\ fu_pc = "analyzed"
    /\ verdict' = [risk |-> combined_risk(conversation_analysis.risk_score, fu_audio_risk),
                   alert |-> FALSE,
                   is_fraud |-> is_fraud(combined_risk(conversation_analysis.risk_score,
                                                       fu_audio_risk))]
    /\ fu_pc' = "final"
    /\ UNCHANGED <<transcription, classifier, fu_audio_risk, conversation_analysis>>

FusionNext ==
    \/ analyze_conversation_step
    \/ handle_real_time_result_step
    \/ process_final_results_step

\* The conversation analyzer and the fusion on their own.
FusionSpec == FusionInit /\ [][FusionNext]_vars

\* ------------------------------------------------------------------------
\* The analyzers on one transcript, and on the transcript with one more
\* occurrence of a fraud keyword
\* ------------------------------------------------------------------------

\* A transcript is about to be analysed.
ConversationInit ==
    /\ ServiceInit
    /\ WsInit
    /\ AudioIdle
    /\ FusionIdle
    /\ cv_pc = "input"
    /\ cv_transcription \in Transcripts \cup ScenarioTranscripts
                               \cup LabelledTranscripts \cup LongCallTranscripts
    /\ cv_analysis = empty_result(<<>>)
    /\ cv_llm_analysis = empty_analysis
    /\ cv_previous_risk = 0

\* result = await analyze_two_sided_conversation(transcription), on the
\* transcript and again once a keyword was added to it.
analyze_two_sided_conversation_step ==
    /\ UNCHANGED <<svcVars, wsVars, auVars, fuVars>>
    /\ cv_pc \in {"input", "extended"}
    /\ cv_analysis' = analyze_two_sided_conversation(cv_transcription)
    /\ cv_pc' = IF cv_pc = "input" THEN "analyzed" ELSE "reanalyzed"
    /\ UNCHANGED <<cv_transcription, cv_llm_analysis, cv_previous_risk>>

\* await analyze_conversation(transcription) on the same transcript, whatever
\* the classifier does.
llm_analyze_conversation_step ==
    /\ UNCHANGED <<svcVars, wsVars, auVars, fuVars>>
    /\ cv_pc = "analyzed"
    /\ \E clf \in ClassifierOutcomes :
          cv_llm_analysis' = analyze_conversation(cv_transcription, clf)
    /\ cv_pc' = "both"
    /\ UNCHANGED <<cv_transcription, cv_analysis, cv_previous_risk>>

\* The text with the words of a keyword put in after its first at tokens.
insert_at(text, at, keyword) ==
    SubSeq(text, 1, at) \o keyword \o SubSeq(text, at + 1, Len(text))

\* The caller of the analyzer adds one occurrence of a configured fraud
\* keyword somewhere between two tokens of the transcript, or at an end.
add_keyword ==
    /\ UNCHANGED <<svcVars, wsVars, auVars, fuVars>>
    /\ cv_pc = "analyzed"
    /\ \E k \in DOMAIN FRAUD_KEYWORDS, at \in 0..Len(cv_transcription) :
          cv_transcription' = insert_at(cv_transcription, at, FRAUD_KEYWORDS[k])
    /\ cv_previous_risk' = cv_analysis.risk_score
    /\ cv_pc' = "extended"
    /\ UNCHANGED <<cv_analysis, cv_llm_analysis>>

ConversationNext ==
    \/ analyze_two_sided_conversation_step
    \/ llm_analyze_conversation_step
    \/ add_keyword

\* The two conversation analyzers on their own.
ConversationSpec == ConversationInit /\ [][ConversationNext]_vars

TypeOK ==
    /\ is_monitoring \in BOOLEAN
    /\ is_recording \in BOOLEAN
    /\ current_call_id \in 0..MaxClock
    /\ nStarted \in 0..MaxCalls
    /\ nChunks \in 0..MaxChunks
    /\ \A s \in Sessions : task_pc[s] \in TaskPcs /\ fin[s].pc \in FinPcs

\* ------------------------------------------------------------------------
\* Properties
\* ------------------------------------------------------------------------

\* CallSession.status of session s, read off the service's state.  "Stopped"
\* is a session whose recording was stopped and whose final pass never ran.
Status(s) ==
    IF s > nStarted THEN "Idle"
    ELSE IF s = nStarted /\ is_recording THEN "Recording"
    ELSE IF fin[s].pc = "finalizing" THEN "Finalizing"
    ELSE IF fin[s].pc = "done" THEN "Completed"
    ELSE "Stopped"

\* The moves of the linear path; a final pass that returns without suspending
\* goes from Recording to Completed within one step.
LinearMoves ==
    {<<"Idle", "Recording">>, <<"Recording", "Finalizing">>,
     <<"Recording", "Completed">>, <<"Finalizing", "Completed">>}

\* C1: every session moves only along Idle -> Recording -> Finalizing ->
\* Completed; it never leaves Recording without its final pass being run and
\* never moves backwards.
C1_LinearPath ==
    [][\A s \in Sessions :
          Status(s)' # Status(s) => <<Status(s), Status(s)'>> \in LinearMoves]_vars

\* C2: alerts are edge-triggered: a handled result raises an alert only when
\* its fused risk is at or above the high-risk threshold and the fused risk of
\* the result handled before it was below the threshold.
C2_AlertsEdgeTriggered ==
    \A i \in 1..Len(results) :
        results[i].alert =>
            /\ results[i].risk >= HIGH_RISK_THRESHOLD
            /\ i > 1 => results[i - 1].risk < HIGH_RISK_THRESHOLD

\* C3: the audio buffer never holds more than the configured cap, and it holds
\* exactly the most recent samples of the call in arrival order.
C3_BufferCapped ==
    /\ Len(audio_buffer) <= BufferCap
    /\ audio_buffer = Tail_n(captured, BufferCap)

\* C4: at most one evaluation tick is in flight at any time.
C4_OneTickInFlight ==
    Cardinality({t \in Sessions : task_pc[t] = "evaluating"}) <= 1

\* A record with the id of session s was passed to save_call_record.
HasRecord(s) ==
    \E i \in 1..Len(save_calls) : save_calls[i].id = call_ids[s]

\* C5: every call that entered Recording and was stopped has, once the
\* handling of the stop is over, a final record handed to save_call_record.
C5_StoppedCallHasRecord ==
    \A s \in 1..nStarted :
        (Status(s) \in {"Stopped", "Completed"}) => HasRecord(s)

\* A part of the final pass that produced this record failed: the
\* transcription came back empty, or an analysis returned its empty result.
ShowsFailure(r) ==
    \/ r.transcription = ""
    \/ r.conversation_risk = EmptyAnalysisRisk
    \/ r.audio_risk = EmptyFeaturesRisk

\* C6: when a part of the final pass of a stopped call fails, a record for
\* that call (its id, its audio) is still handed to save_call_record.
C6_FailedPassStillRecorded ==
    [][\A s \in Sessions :
          (fin[s].pc = "finalizing" /\ fin'[s].pc = "done"
             /\ ShowsFailure(save_calls'[Len(save_calls')]))
          => /\ save_calls'[Len(save_calls')].id = call_ids[s]
             /\ save_calls'[Len(save_calls')].audio = fin[s].audio_data]_vars

\* C7: on_call_started while a call is being recorded changes neither the
\* call id, the buffer nor the recording flag and creates no task.
C7_StartWhileRecordingIsNoOp ==
    [][(is_recording /\ op' = "on_call_started")
          => UNCHANGED <<is_recording, current_call_id, audio_buffer, captured,
                         nStarted, call_ids, task_pc, fin, results, save_calls>>]_vars

\* A start was rejected: on_call_started ran last and left a non-empty buffer
\* (an accepted start empties it).
C7_Witness ==
    /\ op = "on_call_started"
    /\ is_recording
    /\ audio_buffer # <<>>

C9_NoResultAfterStop ==
    [][\A t \in Sessions :
          (task_pc[t] = "evaluating" /\ task_pc'[t] = "sleep" /\ results' # results)
          => (is_recording /\ nStarted = t)]_vars

\* C10: ingestion never waits on the evaluation: while process_buffer is
\* suspended, a chunk that has arrived can be appended to the buffer.
C10_IngestionNeverWaits ==
    (ws_pc = "evaluating" /\ ws_incoming # <<>>) => ENABLED handle_message

\* The factors of the scoring table whose trigger holds on a bundle (a
\* missing value counts as 0).
Triggered(f) ==
    LET v(group, key) == get(get(f, group, <<>>), key, 0)
    IN  {k \in {"rms", "dynamic_range", "centroid", "jitter", "shimmer", "hnr",
                "speech_rate", "pause_ratio"} :
           \/ k = "rms" /\ (v("volume_stats", "rms_energy") < 10
                              \/ v("volume_stats", "rms_energy") > 800)
           \/ k = "dynamic_range" /\ (v("volume_stats", "dynamic_range") < 100
                                        \/ v("volume_stats", "dynamic_range") > 900)
           \/ k = "centroid" /\ (v("frequency_stats", "spectral_centroid") < 500
                                   \/ v("frequency_stats", "spectral_centroid") > 4000)
           \/ k = "jitter" /\ v("voice_quality", "jitter") > 20
           \/ k = "shimmer" /\ v("voice_quality", "shimmer") > 100
           \/ k = "hnr" /\ v("voice_quality", "hnr") < 10
           \/ k = "speech_rate" /\ (v("temporal_features", "speech_rate") > 8
                                      \/ v("temporal_features", "speech_rate") < 1)
           \/ k = "pause_ratio" /\ v("temporal_features", "pause_ratio") > 400}

\* The weight of each factor in the scoring table.
TableWeight ==
    [rms |-> 200, dynamic_range |-> 150, centroid |-> 100, jitter |-> 150,
     shimmer |-> 150, hnr |-> 100, speech_rate |-> 100, pause_ratio |-> 100]

\* The total weight of a set of factors.
RECURSIVE TotalWeight(_)
TotalWeight(ks) ==
    IF ks = {} THEN 0
    ELSE LET k == CHOOSE x \in ks : TRUE
         IN  TableWeight[k] + TotalWeight(ks \ {k})

\* C11: the audio risk score is min(1.0, total weight of the triggered
\* factors of the table); it lies in [0, 1] and is exactly 0 when no factor
\* is triggered.
C11_AudioRiskIsCappedTableSum ==
    au_pc = "scored" =>
        /\ audio_risk_score = min(1000, TotalWeight(Triggered(features)))
        /\ audio_risk_score >= 0 /\ audio_risk_score <= 1000
        /\ Triggered(features) = {} => audio_risk_score = 0

\* A bundle with every factor triggered was scored, and so the cap applied.
C11_Witness ==
    /\ au_pc = "scored"
    /\ audio_data_len > 0
    /\ Cardinality(Triggered(features)) = 8
    /\ audio_risk_score = 1000

\* C12: for an empty array extract_features returns a bundle with duration 0
\* and every group of features empty, and the risk score of that bundle is 0.
C12_EmptyAudioScoresZero ==
    (audio_data_len = 0 /\ au_pc \in {"extracted", "scored"}) =>
        /\ features.duration = 0
        /\ \A g \in {"volume_stats", "frequency_stats", "voice_quality",
                     "temporal_features"} : DOMAIN features[g] = {}
        /\ au_pc = "scored" => audio_risk_score = 0

\* The analysis of the pass is over and its transcription was not blank.
Analyzed ==
    /\ fu_pc \in {"analyzed", "handled", "final"}
    /\ strip(transcription) # <<>>

\* The fusion of the pass is over, on a tick or in the final pass.
Fused ==
    fu_pc \in {"handled", "final"}

\* The rule-based risk of the transcription of the pass.
RuleRisk ==
    rule_based_analysis(transcription).rule_risk_score

\* The risk derived from the classifier's answer in the pass.
OracleRisk ==
    ml_based_analysis(classifier).ml_risk_score

\* C14: the fused risk of a tick and of the final pass is half the sum of
\* the conversation risk and the audio risk and lies in [0, 1]; the
\* conversation risk is 0.7 of the rule-based risk plus 0.3 of the oracle's
\* risk and lies in [0, 1] as well.
C14_FusedRiskIsBoundedMean ==
    /\ Fused => /\ 2 * verdict.risk = conversation_analysis.risk_score + fu_audio_risk
                /\ verdict.risk >= 0 /\ verdict.risk <= 1000
    /\ Analyzed =>
          /\ 1000 * conversation_analysis.risk_score = 700 * RuleRisk + 300 * OracleRisk
          /\ conversation_analysis.risk_score >= 0
          /\ conversation_analysis.risk_score <= 1000

\* A final pass fused the highest audio risk with a conversation risk
\* blended from the highest rule-based risk and the highest oracle risk.
C14_Witness ==
    /\ fu_pc = "final"
    /\ RuleRisk = 1000
    /\ OracleRisk = 600
    /\ fu_audio_risk = 1000
    /\ verdict.risk = 940

\* C15: the verdict depends on the risk and the threshold alone:
\* is_suspicious and is_fraud are true exactly when the risk is at or above
\* the threshold.
C15_VerdictIsThresholdTest ==
    /\ Analyzed => (conversation_analysis.is_suspicious
                      <=> conversation_analysis.risk_score >= MEDIUM_RISK_THRESHOLD)
    /\ fu_pc = "final" => (verdict.is_fraud <=> verdict.risk >= MEDIUM_RISK_THRESHOLD)

\* C16: without a usable classifier (not loaded, or it raised) the
\* conversation risk is the rule-based risk, unchanged.
C16_NoOracleKeepsRuleRisk ==
    (Analyzed /\ (~classifier.loaded \/ classifier.raises))
        => conversation_analysis.risk_score = RuleRisk

\* The rule-based analysis found nothing and the audio risk is zero.
NothingFound ==
    /\ fu_pc \in {"analyzed", "handled", "final"}
    /\ RuleRisk = 0
    /\ rule_based_analysis(transcription).keyword_count = 0
    /\ rule_based_analysis(transcription).phrase_count = 0
    /\ fu_audio_risk = 0

\* C17: when the rule-based analysis finds nothing and the audio risk is
\* zero, no answer of the classifier makes the analysis suspicious, the call
\* a fraud or the tick an alert.
C17_OracleNeverSoleBasis ==
    NothingFound =>
        /\ ~conversation_analysis.is_suspicious
        /\ ~verdict.is_fraud
        /\ ~verdict.alert

\* The classifier was certain of a negative sentiment on a text in which the
\* rules found nothing, and the final pass was decided.
C17_Witness ==
    /\ NothingFound
    /\ fu_pc = "final"
    /\ strip(transcription) # <<>>
    /\ classifier.loaded /\ ~classifier.raises
    /\ lower_token(classifier.label) = "negative"
    /\ classifier.score = 1000
    /\ conversation_analysis.risk_score = 180

\* C13: on an empty or blank transcript both analyzers return risk 0,
\* confidence 0, not suspicious, no keyword and no phrase match, and the
\* fixed reasoning "No text to analyze".
C13_BlankTranscriptShortCircuits ==
    strip(cv_transcription) = <<>> =>
        /\ cv_pc \in {"analyzed", "both"} =>
              /\ cv_analysis.risk_score = 0
              /\ cv_analysis.confidence = 0
              /\ ~cv_analysis.is_suspicious
              /\ cv_analysis.detected_keywords = <<>>
              /\ cv_analysis.detected_phrases = <<>>
              /\ cv_analysis.reasoning = <<"No text to analyze">>
        /\ cv_pc = "both" =>
              /\ cv_llm_analysis.risk_score = 0
              /\ cv_llm_analysis.confidence = 0
              /\ ~cv_llm_analysis.is_suspicious
              /\ cv_llm_analysis.detected_keywords = <<>>
              /\ cv_llm_analysis.detected_phrases = <<>>
              /\ cv_llm_analysis.reasoning = <<"No text to analyze">>

\* C18: adding one more occurrence of a configured fraud keyword to a
\* transcript never decreases the risk ConversationAnalyzer returns.
C18_KeywordNeverLowersRisk ==
    cv_pc = "reanalyzed" => cv_analysis.risk_score >= cv_previous_risk

\* The final pass of session s hands its record to the repository in this
\* step, and the repository cannot store it.
SinkFailsFor(s) ==
    /\ fin[s].pc = "finalizing"
    /\ fin'[s] # fin[s]
    /\ sink_failing'

\* C19: when the repository fails on the final record, on_call_ended still
\* returns: the session is completed and the call id cleared, the record was
\* handed over once and the session is never finalized again, and a new call
\* can be started whenever none is being recorded.
C19_SinkFailureStillCompletes ==
    /\ [][\A s \in Sessions :
             SinkFailsFor(s) =>
                 /\ fin'[s].pc = "done"
                 /\ Status(s)' = "Completed"
                 /\ current_call_id' = NoCall
                 /\ Len(save_calls') = Len(save_calls) + 1
                 /\ UNCHANGED <<is_recording, audio_buffer, task_pc, results>>]_vars
    /\ [][\A s \in Sessions : fin[s].pc = "done" => fin'[s] = fin[s]]_vars
    /\ []((sink_failing /\ ~is_recording /\ nStarted < MaxCalls)
             => ENABLED (on_call_started /\ nStarted' = nStarted + 1))

\* The repository failed on the record of the first call, and a second call
\* was started afterwards and is being recorded.
C19_Witness ==
    /\ sink_failing
    /\ Len(save_calls) = 1
    /\ fin[1].pc = "done"
    /\ nStarted = 2
    /\ is_recording
    /\ current_call_id = call_ids[2]

\* C20: any two sessions started by on_call_started have different ids.
C20_CallIdsUnique ==
    \A s1, s2 \in 1..nStarted : s1 # s2 => call_ids[s1] # call_ids[s2]

\* C21: a tick that gets an empty transcription (the transcription service
\* is unavailable) makes no update: it handles no result and raises no
\* alert, it is not counted as a failed tick, and its task goes on to the
\* ordinary sleep between ticks.
C21_EmptyTranscriptIsNoUpdate ==
    [][op' = "tick_no_text" =>
          /\ results' = results
          /\ nFaults' = nFaults
          /\ UNCHANGED <<save_calls, fin, is_recording, current_call_id>>
          /\ \E t \in Sessions :
                /\ task_pc[t] \in {"start", "sleep", "sleep_err", "evaluating"}
                /\ task_pc'[t] = "sleep"
                /\ \A u \in Sessions \ {t} : task_pc'[u] = task_pc[u]]_vars

\* A tick of the call being recorded captured a chunk, was suspended in the
\* transcription and got an empty transcription back.
C21_Witness ==
    /\ op = "tick_no_text"
    /\ is_recording
    /\ nStarted = 1
    /\ task_pc[1] = "sleep"
    /\ audio_buffer # <<>>
    /\ results = <<>>

\* C22: the analysis of the scenario transcript detects the keywords
\* "suspended" and "verify" and at least one suspicious phrase, and its risk
\* is above 0.4.
C22_ScenarioIsDetected ==
    (cv_pc \in {"analyzed", "both", "reanalyzed"} /\ cv_transcription = Scenario) =>
        /\ \E k \in DOMAIN cv_analysis.detected_keywords :
              cv_analysis.detected_keywords[k] = <<"suspended">>
        /\ \E k \in DOMAIN cv_analysis.detected_keywords :
              cv_analysis.detected_keywords[k] = <<"verify">>
        /\ cv_analysis.detected_phrases # <<>>
        /\ 5 * cv_analysis.risk_score > 2 * ONE

\* C23: when the final pass of a call ends after a new call was started, the
\* two sessions have not interfered: the record handed over carries the id
\* and the audio of the call that ended, and the new call keeps its id and
\* its buffer.
C23_SessionsDoNotInterfere ==
    [][\A s \in Sessions :
          (fin[s].pc = "finalizing" /\ fin'[s].pc = "done" /\ nStarted > s)
          => /\ Len(save_calls') = Len(save_calls) + 1
             /\ save_calls'[Len(save_calls')].id = call_ids[s]
             /\ save_calls'[Len(save_calls')].audio = fin[s].audio_data
             /\ current_call_id' = call_ids[nStarted]
             /\ audio_buffer' = audio_buffer]_vars

\* C24: the row the repository makes of a record of the final pass holds the
\* call's id, the final fused risk and the verdict as the final pass
\* computed them.
C24_StoredRowKeepsFinalPass ==
    \A i \in 1..Len(save_calls) :
        LET row == save_call_record_sync(save_calls[i])
        IN  /\ row.call_id = save_calls[i].id
            /\ row.combined_risk_score = save_calls[i].risk_score
            /\ row.is_suspicious = save_calls[i].is_fraud

\* The speakers of the labels of a text that have a text after them, in the
\* order of the labels.
RECURSIVE LabelSpeakers(_)
LabelSpeakers(text) ==
    IF text = <<>> THEN <<>>
    ELSE IF /\ Head(text) \in Labels
            /\ \E j \in 2..Len(text) :
                  /\ text[j] \notin Labels \cup {" "}
                  /\ \A k \in 2..(j - 1) : text[k] = " "
         THEN <<IF Head(text) = "caller:" THEN "caller" ELSE "victim">>
                  \o LabelSpeakers(Tail(text))
         ELSE LabelSpeakers(Tail(text))

\* The speakers of some turns, in order.
Speakers(turns) ==
    [k \in DOMAIN turns |-> turns[k].speaker]

\* C25: the turns of a transcript with speaker labels, each label having a
\* word after it, are one per labelled span, in the order of the labels.
C25_LabelledTurnsInLabelOrder ==
    (/\ cv_pc # "input"
     /\ cv_transcription # <<>>
     /\ Head(cv_transcription) \in Labels
     /\ \A i \in DOMAIN cv_transcription :
           cv_transcription[i] \in Labels =>
               /\ i < Len(cv_transcription)
               /\ cv_transcription[i + 1] \in Words)
        => Speakers(split_conversation(cv_transcription)) = LabelSpeakers(cv_transcription)

\* C26: the turns of a transcript without speaker labels alternate strictly,
\* caller first: the first turn is the caller's and no two consecutive turns
\* have the same speaker, blank sentences or not.
C26_UnlabelledTurnsAlternate ==
    (cv_pc # "input" /\ \A i \in DOMAIN cv_transcription : cv_transcription[i] \notin Labels)
        => LET turns == split_conversation(cv_transcription)
           IN  /\ turns # <<>> => turns[1].speaker = "caller"
               /\ \A k \in 1..(Len(turns) - 1) : turns[k].speaker # turns[k + 1].speaker

\* The inputs of the risk of the analysed transcript, as the analyzer found
\* them.
Turns == split_conversation(cv_transcription)
Flow == analyze_conversation_flow(Turns)
Behaviors == analyze_speaker_behaviors(Turns)
Indicators == detect_fraud_indicators(cv_transcription)

\* The terms of the risk that do not depend on the flow, in units of 1/6000:
\* 0.20 of each speaker score, 0.05 a keyword, 0.08 a phrase, 0.10 a tactic
\* and 0.02 an urgency word.
OtherTerms ==
    (20 * Behaviors.caller_pressure) \div 100
    + (20 * Behaviors.victim_confusion) \div 100
    + (5 * ONE * Len(Indicators.keywords)) \div 100
    + (8 * ONE * Len(Indicators.phrases)) \div 100
    + (10 * ONE * Indicators.tactics_count) \div 100
    + (2 * ONE * Indicators.urgency_indicators) \div 100

\* flow_term (0.3, 0.15 or 0) and escalation_term (0.1 or 0).
FlowTerm ==
    IF Flow.flow_type = "suspicious_pattern" THEN (3 * ONE) \div 10
    ELSE IF Flow.flow_type = "caller_dominant" THEN (15 * ONE) \div 100 ELSE 0

EscalationTerm ==
    IF Flow.pressure_escalation THEN ONE \div 10 ELSE 0

\* A transcript that is not blank has been analysed.
RiskComputed ==
    cv_pc \in {"analyzed", "both", "reanalyzed"} /\ strip(cv_transcription) # <<>>

\* C27 as stated: the risk is min(1.0, 0.30*flow_term + 0.10*escalation_term
\* + the other terms), and lies in [0,1].
C27_RiskIsReweightedSum ==
    RiskComputed =>
        /\ cv_analysis.risk_score =
              min((30 * FlowTerm) \div 100 + (10 * EscalationTerm) \div 100 + OtherTerms, ONE)
        /\ cv_analysis.risk_score \in 0..ONE

\* C27 amended: the risk is min(1.0, flow_term + escalation_term + the other
\* terms), and lies in [0,1].
C27_RiskIsCappedSum ==
    RiskComputed =>
        /\ cv_analysis.risk_score = min(FlowTerm + EscalationTerm + OtherTerms, ONE)
        /\ cv_analysis.risk_score \in 0..ONE

\* The sum of the terms of an analysed transcript is above 1.0, with a
\* suspicious flow and an escalation: the risk is the cap.
C27_Witness ==
    /\ RiskComputed
    /\ Flow.flow_type = "suspicious_pattern"
    /\ Flow.pressure_escalation
    /\ FlowTerm + EscalationTerm + OtherTerms > ONE
    /\ cv_analysis.risk_score = ONE

\* The text of the caller's turns, as the flow classification reads it.
CallerTurns == turns_of(Turns, "caller")
VictimTurns == turns_of(Turns, "victim")

\* A fraud-tactic phrase appears in the concatenated text of the caller.
TacticInCallerText ==
    \E k \in DOMAIN fraud_tactics : contains(lower(join(CallerTurns)), fraud_tactics[k])

\* C28: a conversation whose caller text contains a fraud-tactic phrase is
\* classified suspicious_pattern; without one it is caller_dominant when the
\* caller has more than 1.5 times the victim's turns, and else normal.
C28_TacticMakesSuspiciousPattern ==
    (RiskComputed /\ Turns # <<>>) =>
        cv_analysis.conversation_flow =
            IF TacticInCallerText THEN "suspicious_pattern"
            ELSE IF 2 * Len(CallerTurns) > 3 * Len(VictimTurns) THEN "caller_dominant"
            ELSE "normal"

\* The number of pressure words found in a text.
PressureHits(text) ==
    Cardinality({k \in DOMAIN caller_pressure_words :
                    contains(lower(text), caller_pressure_words[k])})

\* The analysis says that the caller's pressure escalated.
Escalated ==
    \E k \in DOMAIN cv_analysis.reasoning :
        cv_analysis.reasoning[k] = "Caller pressure escalated during conversation"

Failed == {k \in Extractors : outcome[k] = Raised}

\* C30: the four sub-analyses fail alone: on a non-empty array, the
\* sub-result of one that met an error is empty, the sub-results of the
\* others and the duration are returned as computed, and extract_features
\* returns whatever the sub-analyses do.
C30_SubAnalysesFailAlone ==
    /\ au_pc = "input" => ENABLED extract_features_step
    /\ (au_pc \in {"extracted", "scored"} /\ audio_data_len > 0 /\ ~astype_raises) =>
          /\ \A k \in Failed : DOMAIN features[k] = {}
          /\ \A k \in Extractors \ Failed : features[k] = outcome[k]
          /\ features.duration = audio_data_len

\* Features were extracted from an array on which the volume analysis alone
\* met an error: its sub-result is empty and the other three are not.
C30_Witness ==
    /\ au_pc = "extracted"
    /\ audio_data_len > 0
    /\ ~astype_raises
    /\ Failed = {"volume_stats"}
    /\ DOMAIN features.volume_stats = {}
    /\ features.voice_quality = outcome.voice_quality
    /\ features.duration = audio_data_len

====
